---- MODULE Spec2Model ----
(***************************************************************************)
(* Verification model of rucool/hurricanes: the NHC advisory ingestion of  *)
(* current_storms/current_forecast_track.py (listing scan, download,       *)
(* unpack, KML geometry parsing, per-storm correlation, cleanup) and the   *)
(* extent-to-grid-index mapping of the model comparison scripts.           *)
(*                                                                         *)
(* Text is modelled as sequences of one-character strings so that Python's *)
(* str.split, the `in` substring test, slicing and float() are computed on *)
(* the characters rather than assumed.                                     *)
(***************************************************************************)
EXTENDS Integers, Sequences, FiniteSets, TLC

VARIABLES
  listing,    \* hrefs of the remote directory listing (input)
  year,       \* str(tini.year) of the reference date (input)
  bad,        \* which downloaded archive, if any, unpacks badly, and how (input)
  prior,      \* the working directory and archive folder the run started from (input)
  cwd,        \* names of the files and folders in the working directory
  archive,    \* names of the files in ./archive
  pc,         \* position of main(): idle, downloaded, looping, returned, raised
  todo,       \* track archives of zip_files_track_latest not yet iterated
  tracks,     \* the dictionary main() builds and returns
  err,        \* the exception main() ended with, or "none"
  callerPc,   \* position of rtofs_current_track_surface_maps.py
  doc,        \* parser input: the geometry elements of one KML document
  cone,       \* result of get_cone_coordinates(doc), or NotRun
  track,      \* result of get_track_coordinates(doc), or NotRun
  axis,       \* grid_lons or grid_lats: the coordinate values of one grid axis (input)
  extent,     \* the region's <<min, max>> on that axis (input)
  extent_ind, \* the <<lower, upper>> index computed for the axis, or NoIndex
  lonIndex,   \* the <<lower, upper>> index the surface-map script computes, or NoIndex
  run,        \* which run of main() this is on the working directory: 1 or 2
  first,      \* the mapping the first run returned, or NoResult
  script,     \* the comparison script run: "rtofs-gofs-cmems" or "rtofs-cmems" (input)
  avail,      \* for each model, the timesteps its dataset holds (input)
  ct,         \* position in date_list of the timestep iterated next
  bound,      \* for each model, the timestep rdt / gdt / cdt is bound to, 0 if unbound
  plotted,    \* the comparisons plotted: <<timestep, region, other model>>
  cmpPc,      \* position of the comparison script: looping, done, raised
  cmpErr      \* the exception the comparison script ended with, or "none"

pipeVars == <<listing, year, bad, prior, cwd, archive, pc, todo, tracks, err, callerPc>>
parseVars == <<doc, cone, track>>
gridVars == <<axis, extent, extent_ind, lonIndex>>
twiceVars == <<run, first>>
cmpVars == <<script, avail, ct, bound, plotted, cmpPc, cmpErr>>
vars == <<pipeVars, parseVars, gridVars, twiceVars, cmpVars>>

(***************************************************************************)
(* Python string primitives on character sequences                         *)
(***************************************************************************)

\* s[i-1 : i-1+len(p)] == p
MatchAt(s, p, i) ==
  /\ i >= 1
  /\ i + Len(p) - 1 <= Len(s)
  /\ \A k \in 1..Len(p) : s[i + k - 1] = p[k]

\* 1-based position of the first occurrence of p in s at or after from; 0 if none
FindFrom(s, p, from) ==
  LET hits == { i \in from..(Len(s) - Len(p) + 1) : MatchAt(s, p, i) }
  IN  IF hits = {} THEN 0 ELSE CHOOSE i \in hits : \A j \in hits : i <= j

\* Python: p in s
Contains(s, p) == FindFrom(s, p, 1) # 0

\* Python: s.split(sep), sep non-empty; always at least one piece
RECURSIVE Split(_, _)
Split(s, sep) ==
  LET i == FindFrom(s, sep, 1)
  IN  IF i = 0 THEN << s >>
      ELSE << SubSeq(s, 1, i - 1) >> \o Split(SubSeq(s, i + Len(sep), Len(s)), sep)

\* Python: sep.join(strs)
RECURSIVE Join(_, _)
Join(strs, sep) ==
  IF Len(strs) = 0 THEN << >>
  ELSE IF Len(strs) = 1 THEN strs[1]
  ELSE strs[1] \o sep \o Join(Tail(strs), sep)

\* lst[:-1]: the first piece kept by mistake
SliceKeepFirst(lst) == IF Len(lst) <= 1 THEN << >> ELSE SubSeq(lst, 1, Len(lst) - 1)

\* Python: lst[1:-1]
Slice1M1(lst) == IF Len(lst) <= 2 THEN << >> ELSE SubSeq(lst, 2, Len(lst) - 1)

Digits == {"0", "1", "2", "3", "4", "5", "6", "7", "8", "9"}
DigitVal(c) ==
  CASE c = "0" -> 0 [] c = "1" -> 1 [] c = "2" -> 2 [] c = "3" -> 3 [] c = "4" -> 4
    [] c = "5" -> 5 [] c = "6" -> 6 [] c = "7" -> 7 [] c = "8" -> 8 [] c = "9" -> 9

\* Python: s.strip() for the blank character
RECURSIVE LStrip(_)
LStrip(s) == IF Len(s) > 0 /\ s[1] = " " THEN LStrip(Tail(s)) ELSE s
RECURSIVE RStrip(_)
RStrip(s) == IF Len(s) > 0 /\ s[Len(s)] = " " THEN RStrip(SubSeq(s, 1, Len(s) - 1)) ELSE s
Strip(s) == RStrip(LStrip(s))

RECURSIVE NatVal(_)
NatVal(ds) == IF Len(ds) = 0 THEN 0
              ELSE 10 * NatVal(SubSeq(ds, 1, Len(ds) - 1)) + DigitVal(ds[Len(ds)])

\* Python: float(s) on the model's alphabet (digits, '-', ',', blank, letters):
\* surrounding blanks are ignored, an optional sign, then digits only;
\* anything else raises ValueError.
IsNumeric(s) ==
  LET t == Strip(s)
      body == IF Len(t) > 0 /\ t[1] = "-" THEN Tail(t) ELSE t
  IN  /\ Len(body) > 0
      /\ \A k \in 1..Len(body) : body[k] \in Digits
FloatVal(s) ==
  LET t == Strip(s)
  IN  IF t[1] = "-" THEN 0 - NatVal(Tail(t)) ELSE NatVal(t)

(***************************************************************************)
(* Parser results                                                          *)
(***************************************************************************)
NotRun == [st |-> "notrun"]
Ok(lon, lat) == [st |-> "ok", lon |-> lon, lat |-> lat]
Raised(e) == [st |-> "raised", err |-> e]

COMMA == << "," >>
ALT0 == << ",", "0" >>
COORDINATES == << "c", "o", "o", "r", "d", "i", "n", "a", "t", "e", "s" >>

(***************************************************************************)
(* A KML document as BeautifulSoup presents it: the geometry elements in   *)
(* document order; each has a tag, the text nodes before its <coordinates> *)
(* child (pre), the text of that child (coords) and the text nodes after   *)
(* it (post).                                                              *)
(***************************************************************************)

\* a loop that swallows the failing piece and goes on (try/except: continue)
RECURSIVE ConePiecesSkip(_, _)
ConePiecesSkip(pieces, acc) ==
  IF acc.st # "ok" \/ Len(pieces) = 0 THEN acc
  ELSE LET f == Split(pieces[1], COMMA)
       IN  IF ~IsNumeric(f[1]) \/ Len(f) < 2 \/ ~IsNumeric(f[IF Len(f) < 2 THEN 1 ELSE 2])
           THEN ConePiecesSkip(Tail(pieces), acc)
           ELSE ConePiecesSkip(Tail(pieces),
                               Ok(Append(acc.lon, FloatVal(f[1])), Append(acc.lat, FloatVal(f[2]))))

\* for st in coor[1:-1]: lon = float(st.split(',')[0]); lat = float(st.split(',')[1]); append
RECURSIVE ConePieces(_, _)
ConePieces(pieces, acc) ==
  IF acc.st # "ok" \/ Len(pieces) = 0 THEN acc
  ELSE LET f == Split(pieces[1], COMMA)
       IN  IF ~IsNumeric(f[1]) THEN Raised("ValueError")
           ELSE IF Len(f) < 2 THEN Raised("IndexError")
           ELSE IF ~IsNumeric(f[2]) THEN Raised("ValueError")
           ELSE ConePieces(Tail(pieces),
                           Ok(Append(acc.lon, FloatVal(f[1])), Append(acc.lat, FloatVal(f[2]))))

\* the body of the loop over soup.find_all("coordinates") for one element
ConeElement(e, acc) == ConePieces(Slice1M1(Split(e.coords, ALT0)), acc)

\* the result dictionary re-created inside the loop: earlier rings are lost
RECURSIVE ConeLoopReset(_, _)
ConeLoopReset(d, acc) ==
  IF acc.st # "ok" \/ Len(d) = 0 THEN acc
  ELSE ConeLoopReset(Tail(d), ConeElement(d[1], Ok(<< >>, << >>)))

RECURSIVE ConeLoop(_, _)
ConeLoop(d, acc) ==
  IF acc.st # "ok" \/ Len(d) = 0 THEN acc
  ELSE ConeLoop(Tail(d), ConeElement(d[1], acc))

get_cone_coordinates(d) == ConeLoop(d, Ok(<< >>, << >>))

\* s.get_text("coordinates") of a <Point>: its text nodes joined by the separator
PointText(e) == Join(e.pre \o << e.coords >> \o e.post, COORDINATES)

\* the new point put in front of the arrays instead of appended
TrackElementPrepend(e, acc) ==
  LET parts == Split(PointText(e), COORDINATES)
  IN  IF Len(parts) < 2 THEN Raised("IndexError")
      ELSE LET f == Split(parts[2], COMMA)
           IN  IF ~IsNumeric(f[1]) THEN Raised("ValueError")
               ELSE IF Len(f) < 2 THEN Raised("IndexError")
               ELSE IF ~IsNumeric(f[2]) THEN Raised("ValueError")
               ELSE Ok(<< FloatVal(f[1]) >> \o acc.lon, << FloatVal(f[2]) >> \o acc.lat)

\* the body of the loop over soup.find_all("point") for one element
TrackElement(e, acc) ==
  LET parts == Split(PointText(e), COORDINATES)
  IN  IF Len(parts) < 2 THEN Raised("IndexError")
      ELSE LET f == Split(parts[2], COMMA)
           IN  IF ~IsNumeric(f[1]) THEN Raised("ValueError")
               ELSE IF Len(f) < 2 THEN Raised("IndexError")
               ELSE IF ~IsNumeric(f[2]) THEN Raised("ValueError")
               ELSE Ok(Append(acc.lon, FloatVal(f[1])), Append(acc.lat, FloatVal(f[2])))

RECURSIVE TrackLoop(_, _)
TrackLoop(d, acc) ==
  IF acc.st # "ok" \/ Len(d) = 0 THEN acc
  ELSE IF d[1].tag = "point" THEN TrackLoop(Tail(d), TrackElement(d[1], acc))
  ELSE TrackLoop(Tail(d), acc)

get_track_coordinates(d) == TrackLoop(d, Ok(<< >>, << >>))

(***************************************************************************)
(* Parser inputs.  A point is written lon,lat[,alt]; a coordinates text is *)
(* the points separated by one blank.  An element keeps its points (pts)   *)
(* beside its text only so that properties can name them; the parsers read *)
(* tag, pre, coords and post alone.                                        *)
(***************************************************************************)
Pt(lon, lat, alt) == [lon |-> lon, lat |-> lat, alt |-> alt]
PtText(p) == p.lon \o COMMA \o p.lat \o (IF p.alt = << >> THEN << >> ELSE COMMA \o p.alt)

PA == Pt(<< "-", "7" >>, << "1", "2" >>, << "0" >>)     \* -7,12,0
PB == Pt(<< "3" >>, << "4" >>, << "0" >>)               \* 3,4,0
PZ == Pt(<< "5" >>, << "0" >>, << "0" >>)               \* 5,0,0   latitude zero
PM == Pt(<< "x" >>, << "4" >>, << "0" >>)               \* x,4,0   malformed longitude
PN == Pt(<< "3" >>, << "x" >>, << "0" >>)               \* 3,x,0   malformed latitude
PD == Pt(<< "3" >>, << "4" >>, << >>)                   \* 3,4     altitude missing

PlainPts == {PA, PB}
RichPts == {PA, PB, PZ, PM, PN, PD}
Tags == {"polygon", "linestring", "point"}

BLANK == << " " >>
\* layouts of an element: text nodes around <coordinates> ("nhc": one
\* whitespace node on each side, as published) or none ("compact")
Layouts == {"nhc", "compact"}

MkElem(tag, pts, layout) ==
  [tag |-> tag,
   pre |-> IF layout = "nhc" THEN << BLANK >> ELSE << >>,
   coords |-> Join([i \in 1..Len(pts) |-> PtText(pts[i])], BLANK),
   post |-> IF layout = "nhc" THEN << BLANK >> ELSE << >>,
   pts |-> pts]

MaxRings == 3       \* polygon rings per document (plain points)
MaxDocPts == 6      \* points per document, all rings together (plain points)
MaxMixed == 2       \* elements per document of mixed tags
MaxMixedPts == 3    \* points per document of mixed tags
MaxRichPts == 3     \* points per document drawn from RichPts

SeqsUpTo(S, n) == UNION { [1..k -> S] : k \in 0..n }
Cuts(n, r) == { c \in [1..(r - 1) -> 0..n] : \A i \in 1..(r - 2) : c[i] <= c[i + 1] }
Segment(flat, c, i, r) ==
  SubSeq(flat, (IF i = 1 THEN 0 ELSE c[i - 1]) + 1, IF i = r THEN Len(flat) ELSE c[i])

\* doc is a document of at most maxE elements holding at most maxP points in all
DrawDoc(alpha, maxE, maxP, tags, layouts) ==
  \E r \in 0..maxE : \E lay \in layouts : \E flat \in SeqsUpTo(alpha, maxP) :
    \E c \in Cuts(Len(flat), r) : \E tg \in [1..r -> tags] :
      /\ r = 0 => flat = << >>
      /\ doc = [i \in 1..r |-> MkElem(tg[i], Segment(flat, c, i, r), lay)]

\* doc is a track-like document: <Point> elements holding one point each
DrawPointDoc(alpha, maxP, layouts) ==
  \E ps \in SeqsUpTo(alpha, maxP) : \E lay \in layouts :
    doc = [i \in 1..Len(ps) |-> MkElem("point", << ps[i] >>, lay)]

\* the documents the parsers are applied to
DrawAnyDoc ==
  \/ DrawDoc(PlainPts, MaxRings, MaxDocPts, {"polygon"}, {"nhc"})
  \/ DrawDoc(PlainPts, MaxMixed, MaxMixedPts, Tags, Layouts)
  \/ DrawDoc(RichPts, 1, MaxRichPts, {"polygon"}, Layouts)
  \/ DrawPointDoc(RichPts, MaxRichPts, Layouts)

(***************************************************************************)
(* File names and listing entries                                          *)
(***************************************************************************)
SLASH == << "/" >>
UNDERSCORE == << "_" >>
KMZ == << "k", "m", "z" >>
DOTKMZ == << "." >> \o KMZ
DOTZIP == << ".", "z", "i", "p" >>
CONE == << "C", "O", "N", "E" >>
TRACK == << "T", "R", "A", "C", "K" >>
LATEST == << "_", "l", "a", "t", "e", "s", "t" >>
CONE_LATEST == CONE \o LATEST
TRACK_LATEST == TRACK \o LATEST
BEST_TRACK == << "b", "e", "s", "t", "_", "t", "r", "a", "c", "k" >>
FIVEDAY == << "_", "5", "d", "a", "y", "_" >>
UpperAL == << "A", "L" >>
LowerAL == << "a", "l" >>
UpperEP == << "E", "P" >>
Y2020 == << "2", "0", "2", "0" >>
Y2021 == << "2", "0", "2", "1" >>
API_DIR == << "/", "s", "t", "o", "r", "m", "_", "g", "r", "a", "p", "h", "i", "c", "s",
              "/", "a", "p", "i", "/" >>
BEST_DIR == BEST_TRACK \o SLASH

TrackName(storm) == storm \o FIVEDAY \o TRACK_LATEST \o DOTKMZ
ConeName(storm) == storm \o FIVEDAY \o CONE_LATEST \o DOTKMZ
BestName(storm) == storm \o UNDERSCORE \o BEST_TRACK \o DOTKMZ

AL05 == UpperAL \o << "0", "5" >> \o Y2021
AL06 == UpperAL \o << "0", "6" >> \o Y2021
al06 == LowerAL \o << "0", "6" >> \o Y2021
EP07 == UpperEP \o << "0", "7" >> \o Y2021
AL01old == UpperAL \o << "0", "1" >> \o Y2020

\* an entry of another product of the season: a shapefile archive, no kmz
ShapefileHref == << "f", "o", "r", "e", "c", "a", "s", "t", "/" >> \o LowerAL
                   \o << "0", "5" >> \o Y2021 \o FIVEDAY \o << "l", "a", "t", "e", "s", "t" >> \o DOTZIP

Listings ==
  { a \cup b \cup c \cup d :
      a \in SUBSET { API_DIR \o TrackName(AL05), API_DIR \o ConeName(AL05), BEST_DIR \o BestName(AL05) },
      b \in { {}, { API_DIR \o TrackName(AL06) },
              { API_DIR \o TrackName(AL06), API_DIR \o ConeName(AL06) },
              { API_DIR \o TrackName(AL06), API_DIR \o ConeName(AL06), BEST_DIR \o BestName(al06) } },
      c \in { {}, { API_DIR \o TrackName(EP07) },
              { API_DIR \o TrackName(EP07), API_DIR \o ConeName(EP07), BEST_DIR \o BestName(EP07) } },
      d \in { {}, { API_DIR \o TrackName(AL01old), ShapefileHref } } }

EndsWith(s, suffix) == Len(s) >= Len(suffix) /\ MatchAt(s, suffix, Len(s) - Len(suffix) + 1)
\* Python: s[:-k]
DropLast(s, k) == SubSeq(s, 1, Len(s) - k)
\* Python: s[k:]
DropFirstChars(s, k) == SubSeq(s, k + 1, Len(s))

ZipOf(kmz) == DropLast(kmz, 3) \o << "z", "i", "p" >>     \* f[:-3] + 'zip'
DirOf(f) == DropLast(f, 4)                                \* f[:-4]

(***************************************************************************)
(* Remote content: the geometry documents an archive unpacks to            *)
(***************************************************************************)
TrackDoc == << MkElem("point", << PA >>, "nhc"), MkElem("point", << PB >>, "nhc") >>
BestDoc == << MkElem("point", << PB >>, "nhc"), MkElem("point", << PA >>, "nhc"),
              MkElem("point", << PB >>, "nhc") >>
ConeDoc == << MkElem("polygon", << PA, PB, PB, PA >>, "nhc") >>
TrackDocBad == << MkElem("point", << PA >>, "nhc"), MkElem("point", << PN >>, "nhc") >>
ConeDocBad == << MkElem("polygon", << PA, PM, PB, PA >>, "nhc") >>
LegendDoc == << >>  \* a second document of an archive, holding no geometry

DocFor(n) == IF Contains(n, TRACK) THEN TrackDoc
             ELSE IF Contains(n, CONE) THEN ConeDoc ELSE BestDoc
BadDocFor(n) == IF Contains(n, CONE) THEN ConeDocBad ELSE TrackDocBad

NoBad == [file |-> << >>, kind |-> "none"]
Bads == { NoBad,
          [file |-> DirOf(TrackName(AL05)), kind |-> "nokml"],
          [file |-> DirOf(TrackName(AL05)), kind |-> "malformed"],
          [file |-> DirOf(ConeName(AL05)), kind |-> "nokml"],
          [file |-> DirOf(ConeName(AL05)), kind |-> "twokml"],
          [file |-> DirOf(ConeName(AL05)), kind |-> "malformed"],
          [file |-> DirOf(BestName(AL05)), kind |-> "nokml"] }

\* the *.kml documents of the unpack folder dir
KmlsOf(dir) ==
  IF dir \notin cwd THEN {}
  ELSE IF bad.file # dir THEN { DocFor(dir) }
  ELSE IF bad.kind = "nokml" THEN {}
  ELSE IF bad.kind = "twokml" THEN { DocFor(dir), LegendDoc }
  ELSE { BadDocFor(dir) }

(***************************************************************************)
(* cleanup_dir                                                             *)
(***************************************************************************)
KmzIn(c) == { n \in c : EndsWith(n, DOTKMZ) }                  \* glob('*.kmz')
\* the cone files and folders left in place
SweptButCone(c) == { n \in c : ~(Contains(n, BEST_TRACK) \/ Contains(n, TRACK)) }
Swept(c) == { n \in c : ~(Contains(n, BEST_TRACK) \/ Contains(n, TRACK) \/ Contains(n, CONE)) }

\* The outcomes of cleanup_dir() on working directory c and archive folder a.
\* shutil.move raises shutil.Error when ./archive already holds a file of the
\* name; the files moved before that depend on the order glob lists them in.
cleanup_dir(c, a) ==
  LET k == KmzIn(c)
      clash == k \cap a
  IN  IF clash = {}
      THEN { [ok |-> TRUE, cwd |-> Swept(c \ k), archive |-> a \cup k] }
      ELSE { [ok |-> FALSE, cwd |-> c \ m, archive |-> a \cup m] : m \in SUBSET (k \ clash) }

(***************************************************************************)
(* download_current_kmz                                                    *)
(***************************************************************************)
\* ff.split('/')[k]
Segment_(ff, k) ==
  LET sg == Split(ff, SLASH)
  IN  IF Len(sg) > k THEN [ok |-> TRUE, name |-> sg[k + 1]] ELSE [ok |-> FALSE]

\* the best-track name taken from the same path position as cone and track
DownloadTargetsSamePosition(ff, yr) ==
  IF Contains(ff, KMZ) /\ Contains(ff, yr)
  THEN (IF Contains(ff, CONE_LATEST) THEN { Segment_(ff, 3) } ELSE {})
       \cup (IF Contains(ff, TRACK_LATEST) THEN { Segment_(ff, 3) } ELSE {})
       \cup (IF Contains(ff, BEST_TRACK) THEN { Segment_(ff, 3) } ELSE {})
  ELSE {}

\* the reference year not looked at
DownloadTargetsAnyYear(ff, yr) ==
  IF Contains(ff, KMZ)
  THEN (IF Contains(ff, CONE_LATEST) THEN { Segment_(ff, 3) } ELSE {})
       \cup (IF Contains(ff, TRACK_LATEST) THEN { Segment_(ff, 3) } ELSE {})
       \cup (IF Contains(ff, BEST_TRACK) THEN { Segment_(ff, 1) } ELSE {})
  ELSE {}

\* the files one listing entry is saved as
DownloadTargets(ff, yr) ==
  IF Contains(ff, KMZ) /\ Contains(ff, yr)
  THEN (IF Contains(ff, CONE_LATEST) THEN { Segment_(ff, 3) } ELSE {})
       \cup (IF Contains(ff, TRACK_LATEST) THEN { Segment_(ff, 3) } ELSE {})
       \cup (IF Contains(ff, BEST_TRACK) THEN { Segment_(ff, 1) } ELSE {})
  ELSE {}

Fail(e) == /\ pc' = "raised"
           /\ err' = e

\* main(): download_current_kmz(today)
MainDownload ==
  /\ pc = "idle"
  /\ \E co \in cleanup_dir(cwd, archive) :
       LET tg == UNION { DownloadTargets(ff, year) : ff \in listing }
           got == { t.name : t \in { u \in tg : u.ok } }
       IN  /\ archive' = co.archive
           /\ IF ~co.ok
              THEN Fail("shutil.Error") /\ cwd' = co.cwd
              ELSE IF \E t \in tg : ~t.ok
              THEN Fail("IndexError") /\ \E part \in SUBSET got : cwd' = co.cwd \cup part
              ELSE pc' = "downloaded" /\ err' = err /\ cwd' = co.cwd \cup got
  /\ UNCHANGED <<listing, year, bad, prior, todo, tracks, callerPc, parseVars, gridVars, twiceVars, cmpVars>>

(***************************************************************************)
(* main(): duplicate and unpack, select the Atlantic track archives        *)
(***************************************************************************)
\* every duplicated archive, whatever its basin
ZipFilesAnyBasin(c) == { f \in c : EndsWith(f, DOTZIP) }
ZipFiles(c) == { f \in c : EndsWith(f, DOTZIP) /\ (Contains(f, LowerAL) \/ Contains(f, UpperAL)) }
TrackZips(c) == { f \in ZipFiles(c) : Contains(f, TRACK) }

\* only the track archives duplicated and unpacked
MainUnpackTracksOnly ==
  /\ pc = "downloaded"
  /\ LET kmz == { f \in KmzIn(cwd) : Contains(f, TRACK) }
         c2 == cwd \cup { ZipOf(f) : f \in kmz } \cup { DirOf(f) : f \in kmz }
     IN  /\ cwd' = c2
         /\ todo' = TrackZips(c2)
  /\ pc' = "looping"
  /\ UNCHANGED <<listing, year, bad, prior, archive, tracks, err, callerPc, parseVars, gridVars, twiceVars, cmpVars>>

MainUnpack ==
  /\ pc = "downloaded"
  /\ LET kmz == KmzIn(cwd)
         c2 == cwd \cup { ZipOf(f) : f \in kmz } \cup { DirOf(f) : f \in kmz }
     IN  /\ cwd' = c2
         /\ todo' = TrackZips(c2)
  /\ pc' = "looping"
  /\ UNCHANGED <<listing, year, bad, prior, archive, tracks, err, callerPc, parseVars, gridVars, twiceVars, cmpVars>>

(***************************************************************************)
(* main(): one iteration of the loop over the track archives               *)
(***************************************************************************)
TrackPlt == [ls |-> "-.", color |-> "gold", lw |-> 2, name |-> "Forecast Track"]
ConePlt == [ls |-> "-.", color |-> "blue", lw |-> 1, name |-> "Forecast Cone"]
BestPlt == [ls |-> ":", color |-> "magenta", lw |-> 3, name |-> "Best Track"]

StormName(f) == Split(f, UNDERSCORE)[1]          \* f.split('_')[0]
StormKey(f) == DropFirstChars(StormName(f), 2)   \* f.split('_')[0][2:]

\* the product marker alone, whatever the storm
CompanionsAnyStorm(f, zips, marker) == { fl \in zips : Contains(fl, marker) }

\* [fl for fl in zip_files if key in fl and marker in fl]
Companions(f, zips, marker) == { fl \in zips : Contains(fl, StormKey(f)) /\ Contains(fl, marker) }

\* the geometry read from archive f: glob(f[:-4] + '/*.kml')[0], parsed, styled
\* which == "cone" calls get_cone_coordinates, "track" get_track_coordinates
Geometries(f, which, plt) ==
  LET kmls == KmlsOf(DirOf(f))
  IN  IF kmls = {} THEN { Raised("IndexError") }
      ELSE { LET r == IF which = "cone" THEN get_cone_coordinates(d)
                      ELSE get_track_coordinates(d)
             IN  IF r.st = "ok" THEN [st |-> "ok", lon |-> r.lon, lat |-> r.lat, plt |-> plt]
                 ELSE Raised("ValueError") : d \in kmls }

Stop(e, bundle) == [st |-> "raised", err |-> e, bundle |-> bundle]

BestStep(f, zips, sofar) ==
  LET bs == Companions(f, zips, BEST_TRACK)
  IN  IF bs = {} THEN { Stop("IndexError", sofar) }
      ELSE UNION { { IF g.st # "ok" THEN Stop(g.err, sofar)
                     ELSE [st |-> "ok", err |-> "none", bundle |-> sofar @@ ("best_track" :> g)]
                     : g \in Geometries(b, "track", BestPlt) } : b \in bs }

\* a missing cone archive tolerated: the bundle goes on without a cone
ConeStepLenient(f, zips, sofar) ==
  LET cs == Companions(f, zips, CONE)
  IN  IF cs = {} THEN BestStep(f, zips, sofar)
      ELSE UNION { UNION { IF g.st # "ok" THEN { Stop(g.err, sofar) }
                           ELSE BestStep(f, zips, sofar @@ ("forecast_cone" :> g))
                           : g \in Geometries(c, "cone", ConePlt) } : c \in cs }

ConeStep(f, zips, sofar) ==
  LET cs == Companions(f, zips, CONE)
  IN  IF cs = {} THEN { Stop("IndexError", sofar) }
      ELSE UNION { UNION { IF g.st # "ok" THEN { Stop(g.err, sofar) }
                           ELSE BestStep(f, zips, sofar @@ ("forecast_cone" :> g))
                           : g \in Geometries(c, "cone", ConePlt) } : c \in cs }

\* the outcomes of the loop body for track archive f
Bundle(f, zips) ==
  UNION { IF g.st # "ok" THEN { Stop(g.err, << >>) }
          ELSE ConeStep(f, zips, "forecast_track" :> g)
          : g \in Geometries(f, "track", TrackPlt) }

MainTrack ==
  /\ pc = "looping"
  /\ \E f \in todo : \E o \in Bundle(f, ZipFiles(cwd)) :
       /\ tracks' = [n \in DOMAIN tracks \cup { StormName(f) } |->
                       IF n = StormName(f) THEN o.bundle ELSE tracks[n]]
       /\ IF o.st = "ok"
          THEN todo' = todo \ { f } /\ pc' = pc /\ err' = err
          ELSE todo' = todo /\ Fail(o.err)
  /\ UNCHANGED <<listing, year, bad, prior, cwd, archive, callerPc, parseVars, gridVars, twiceVars, cmpVars>>

\* main(): cleanup_dir(); return tracks
MainFinish ==
  /\ pc = "looping"
  /\ todo = {}
  /\ \E co \in cleanup_dir(cwd, archive) :
       /\ cwd' = co.cwd
       /\ archive' = co.archive
       /\ IF co.ok THEN pc' = "returned" /\ err' = err ELSE Fail("shutil.Error")
  /\ UNCHANGED <<listing, year, bad, prior, todo, tracks, callerPc, parseVars, gridVars, twiceVars, cmpVars>>

(***************************************************************************)
(* rtofs_current_track_surface_maps.py: the call of the ingestion          *)
(***************************************************************************)
MainParams == 1     \* def main(today)
CallerArgs == 2     \* current_forecast_track.main(today, save_dir)

CallerScript ==
  /\ callerPc = "init"
  /\ pc = "idle"
  /\ callerPc' = IF CallerArgs # MainParams THEN "TypeError" ELSE "called"
  /\ UNCHANGED <<listing, year, bad, prior, cwd, archive, pc, todo, tracks, err, parseVars, gridVars, twiceVars, cmpVars>>

(***************************************************************************)
(* Mapping an extent onto grid indices (model comparison scripts and the   *)
(* storm-track surface-map script). Coordinates are whole numbers of steps *)
(* of 1/UnitsPerDegree degree; an interpolated index is the exact fraction *)
(* num/den, den > 0.                                                       *)
(***************************************************************************)
NoIndex == << >>
Frac(n, d) == [num |-> n, den |-> d]
Floor(q) == q.num \div q.den                 \* np.floor
Ceil(q) == 0 - ((0 - q.num) \div q.den)      \* np.ceil

\* grid_x, grid_y: the index value of each grid position
GridIndex(xp) == [k \in 1..Len(xp) |-> k - 1]

\* the last position, scanning upward, whose coordinate is <= x
\* (numpy's search; xp[1] <= x <= xp[Len(xp)] when it is used)
RECURSIVE SearchFrom(_, _, _)
SearchFrom(x, xp, i) == IF i <= Len(xp) /\ x >= xp[i] THEN SearchFrom(x, xp, i + 1) ELSE i - 1

\* linear extension beyond the ends of the axis instead of the end values
InterpExtrapolating(x, xp, fp) ==
  LET n == Len(xp)
      j == IF x > xp[n] \/ x < xp[1]
           THEN (IF x > xp[n] THEN n - 1 ELSE 1)
           ELSE (IF SearchFrom(x, xp, 2) = n THEN n - 1 ELSE SearchFrom(x, xp, 2))
      dx == xp[j + 1] - xp[j]
  IN  IF dx > 0 THEN Frac(fp[j] * dx + (fp[j + 1] - fp[j]) * (x - xp[j]), dx)
      ELSE Frac((fp[j + 1] - fp[j]) * (xp[j] - x) - fp[j] * dx, 0 - dx)

\* np.interp(x, xp, fp) for one x
Interp(x, xp, fp) ==
  LET n == Len(xp)
  IN  IF x > xp[n] THEN Frac(fp[n], 1)
      ELSE IF x < xp[1] THEN Frac(fp[1], 1)
      ELSE LET j == SearchFrom(x, xp, 2)
           IN  IF j = n \/ xp[j] = x THEN Frac(fp[j], 1)
               ELSE LET dx == xp[j + 1] - xp[j]
                    IN  Frac(fp[j] * dx + (fp[j + 1] - fp[j]) * (x - xp[j]), dx)

UnitsPerDegree == 2     \* coordinates are counted in this many steps per degree

\* the box as it is, no degree added on either side
ExtendedNot(ext) == ext

\* extended = np.add(extent, [-1, 1, -1, 1]) for one axis
Extended(ext) == << ext[1] - UnitsPerDegree, ext[2] + UnitsPerDegree >>

\* both ends floored: the upper index not rounded outward
IndexRangeFloorBoth(box, xp) ==
  << Floor(Interp(box[1], xp, GridIndex(xp))), Floor(Interp(box[2], xp, GridIndex(xp))) >>

\* the rounding directions exchanged: the range narrowed instead of widened
IndexRangeCeilFloor(box, xp) ==
  << Ceil(Interp(box[1], xp, GridIndex(xp))), Floor(Interp(box[2], xp, GridIndex(xp))) >>

\* lons_ind = np.interp(extended[:2], grid_lons, grid_x);
\* [np.floor(lons_ind[0]).astype(int), np.ceil(lons_ind[1]).astype(int)]
IndexRange(box, xp) ==
  << Floor(Interp(box[1], xp, GridIndex(xp))), Ceil(Interp(box[2], xp, GridIndex(xp))) >>

\* np.round: to the nearest integer, a half to the even neighbour
Round(q) ==
  LET f == Floor(q)
      twice == 2 * (q.num - f * q.den)
  IN  IF twice < q.den THEN f
      ELSE IF twice > q.den THEN f + 1
      ELSE IF f % 2 = 0 THEN f ELSE f + 1

\* lonIndex = np.round(np.interp(extent[:2], lon[0, :], np.arange(0, len(lon[0, :])))).astype(int)
RoundedRange(box, xp) ==
  << Round(Interp(box[1], xp, GridIndex(xp))), Round(Interp(box[2], xp, GridIndex(xp))) >>

\* rdt.isel(x=slice(ind[0], ind[1])): the coordinates of the grid points kept
Sliced(ind, xp) == { xp[i + 1] : i \in { k \in 0..(Len(xp) - 1) : ind[1] <= k /\ k < ind[2] } }

MaxAxisLen == 4     \* grid points on the axis
MaxCoord == 6       \* coordinates range over 0..MaxCoord steps

Increasing(xp) == \A k \in 1..(Len(xp) - 1) : xp[k] < xp[k + 1]
Decreasing(xp) == \A k \in 1..(Len(xp) - 1) : xp[k] > xp[k + 1]
Axes == { xp \in UNION { [1..n -> 0..MaxCoord] : n \in 2..MaxAxisLen } :
            Increasing(xp) \/ Decreasing(xp) }
Extents == { e \in (0..MaxCoord) \X (0..MaxCoord) : e[1] <= e[2] }

\* the states of the working directory and archive folder a run may start from
CleanStart == [cwd |-> {}, archive |-> {}]
Priors ==
  { CleanStart,
    \* an interrupted run left its files behind
    [cwd |-> { TrackName(AL05), ZipOf(TrackName(AL05)), DirOf(TrackName(AL05)) }, archive |-> {}],
    \* an earlier run of the season archived its downloads
    [cwd |-> {}, archive |-> { TrackName(AL05), ConeName(AL05), BestName(AL05) }],
    \* both
    [cwd |-> { ConeName(AL06) }, archive |-> { ConeName(AL06) }] }

(***************************************************************************)
(* A second run of main() on the same working directory: the script is     *)
(* started again (__main__) with the listing unchanged                     *)
(***************************************************************************)
NoResult == [st |-> "none"]

MainAgain ==
  /\ pc = "returned"
  /\ run = 1
  /\ run' = 2
  /\ first' = [st |-> "returned", tracks |-> tracks]
  /\ pc' = "idle"
  /\ todo' = {}
  /\ tracks' = << >>
  /\ err' = "none"
  /\ UNCHANGED <<listing, year, bad, prior, cwd, archive, callerPc, parseVars, gridVars, cmpVars>>

(***************************************************************************)
(* The model comparison scripts: the loop over the timesteps of date_list  *)
(***************************************************************************)
MaxTimes == 3       \* timesteps in date_list

Times == 1..MaxTimes
Models == { "rtofs", "gofs", "cmems" }
Regions == { "gom", "caribbean" }      \* of conf.regions
Unbound == [m \in Models |-> 0]

\* rds.sel(time=ctime) succeeds: the dataset holds the timestep
Sel(m, t) == t \in avail[m]

CmpFail(e) ==
  /\ cmpPc' = "raised"
  /\ cmpErr' = e
  /\ UNCHANGED <<ct, plotted>>

CmpAdvance ==
  /\ ct' = ct + 1
  /\ cmpPc' = IF ct = MaxTimes THEN "done" ELSE "looping"
  /\ cmpErr' = cmpErr

\* rtofs-gofs-cmems.py main(): one iteration of `for ctime in date_list`.
\* A failed sel leaves rdt / gdt / cdt as the iteration before left it; the
\* region loop reads rdt (line 174) and gdt (line 181) whatever the flags say.
CompareStep ==
  /\ script = "rtofs-gofs-cmems"
  /\ cmpPc = "looping"
  /\ LET flag == [m \in Models |-> Sel(m, ct)]
         b2 == [m \in Models |-> IF flag[m] THEN ct ELSE bound[m]]
     IN  /\ bound' = b2
         /\ IF b2["rtofs"] = 0 \/ b2["gofs"] = 0
            THEN CmpFail("UnboundLocalError")
            ELSE /\ plotted' = plotted
                      \cup (IF flag["rtofs"] /\ flag["gofs"]
                            THEN { <<ct, r, "gofs">> : r \in Regions } ELSE {})
                      \cup (IF flag["rtofs"] /\ flag["cmems"]
                            THEN { <<ct, r, "cmems">> : r \in Regions } ELSE {})
                 /\ CmpAdvance
  /\ UNCHANGED <<script, avail, pipeVars, parseVars, gridVars, twiceVars>>

\* rtofs-cmems.py: one iteration of `for t in date_list`
RtofsCmemsStep ==
  /\ script = "rtofs-cmems"
  /\ cmpPc = "looping"
  /\ IF ~Sel("rtofs", ct)
     THEN CmpFail("KeyError") /\ bound' = bound
     ELSE /\ bound' = [bound EXCEPT !["rtofs"] = ct,
                                    !["cmems"] = IF Sel("cmems", ct) THEN ct ELSE @]
          /\ plotted' = plotted
               \cup (IF Sel("cmems", ct) THEN { <<ct, r, "cmems">> : r \in Regions } ELSE {})
          /\ CmpAdvance
  /\ UNCHANGED <<script, avail, pipeVars, parseVars, gridVars, twiceVars>>

(***************************************************************************)
(* The parts of the state a specification leaves at rest                   *)
(***************************************************************************)
PipeIdle ==
  /\ listing = {} /\ year = Y2021 /\ bad = NoBad /\ prior = CleanStart
  /\ cwd = {} /\ archive = {}
  /\ pc = "idle" /\ todo = {} /\ tracks = << >> /\ err = "none" /\ callerPc = "init"

ParseIdle == doc = << >> /\ cone = NotRun /\ track = NotRun

GridIdle ==
  axis = << 0, 1 >> /\ extent = << 0, 0 >> /\ extent_ind = NoIndex /\ lonIndex = NoIndex

TwiceIdle == run = 1 /\ first = NoResult

CmpIdle ==
  /\ script = "rtofs-cmems" /\ avail = [m \in Models |-> {}] /\ ct = 1 /\ bound = Unbound
  /\ plotted = {} /\ cmpPc = "idle" /\ cmpErr = "none"

(***************************************************************************)
(* Specification of an ingestion run                                       *)
(***************************************************************************)
AL05Triple == { API_DIR \o TrackName(AL05), API_DIR \o ConeName(AL05), BEST_DIR \o BestName(AL05) }

\* the runs explored: every listing of the season from every starting state;
\* a badly unpacking archive beside a listing that holds AL05 complete; and a
\* reference date of the year before
Inputs ==
  { [listing |-> l, year |-> Y2021, bad |-> NoBad, prior |-> p] : l \in Listings, p \in Priors }
    \cup { [listing |-> l, year |-> Y2021, bad |-> b, prior |-> CleanStart] :
              l \in { m \in Listings : AL05Triple \subseteq m }, b \in Bads }
    \cup { [listing |-> l, year |-> Y2020, bad |-> NoBad, prior |-> CleanStart] :
              l \in { m \in Listings : Cardinality(m) <= 3 } }

Init ==
  /\ \E i \in Inputs :
       /\ listing = i.listing /\ year = i.year /\ bad = i.bad /\ prior = i.prior
       /\ cwd = i.prior.cwd /\ archive = i.prior.archive
  /\ pc = "idle"
  /\ todo = {}
  /\ tracks = << >>
  /\ err = "none"
  /\ callerPc = "init"
  /\ ParseIdle
  /\ GridIdle
  /\ TwiceIdle
  /\ CmpIdle

Next == MainDownload \/ MainUnpack \/ MainTrack \/ MainFinish \/ CallerScript

Spec == Init /\ [][Next]_vars

(***************************************************************************)
(* Specification of the geometry parsers: a document is drawn, each parser *)
(* is applied to it once.                                                  *)
(***************************************************************************)
ParseInit ==
  /\ DrawAnyDoc
  /\ cone = NotRun
  /\ track = NotRun
  /\ PipeIdle
  /\ GridIdle
  /\ TwiceIdle
  /\ CmpIdle

ParseCone ==
  /\ cone = NotRun
  /\ cone' = get_cone_coordinates(doc)
  /\ UNCHANGED <<doc, track, pipeVars, gridVars, twiceVars, cmpVars>>

ParseTrack ==
  /\ track = NotRun
  /\ track' = get_track_coordinates(doc)
  /\ UNCHANGED <<doc, cone, pipeVars, gridVars, twiceVars, cmpVars>>

ParseNext == ParseCone \/ ParseTrack

ParseSpec == ParseInit /\ [][ParseNext]_vars

(***************************************************************************)
(* Specification of the grid index mapping: an axis and an extent are      *)
(* drawn, the index range is computed once.                                *)
(***************************************************************************)
GridInit ==
  /\ axis \in Axes
  /\ extent \in Extents
  /\ extent_ind = NoIndex
  /\ lonIndex = NoIndex
  /\ PipeIdle
  /\ ParseIdle
  /\ TwiceIdle
  /\ CmpIdle

\* the index computation of one region on one axis
MapExtent ==
  /\ extent_ind = NoIndex
  /\ extent_ind' = IndexRange(Extended(extent), axis)
  /\ UNCHANGED <<axis, extent, lonIndex, pipeVars, parseVars, twiceVars, cmpVars>>

\* rtofs_current_track_surface_maps.py: the index computation for one region
\* on one axis of one RTOFS file
SurfaceMapExtent ==
  /\ lonIndex = NoIndex
  /\ lonIndex' = RoundedRange(extent, axis)
  /\ UNCHANGED <<axis, extent, extent_ind, pipeVars, parseVars, twiceVars, cmpVars>>

GridNext == MapExtent \/ SurfaceMapExtent

GridSpec == GridInit /\ [][GridNext]_vars

(***************************************************************************)
(* Specification of two runs in succession from a clean working directory  *)
(***************************************************************************)
TwiceInit ==
  /\ listing \in Listings /\ year = Y2021 /\ bad = NoBad /\ prior = CleanStart
  /\ cwd = {} /\ archive = {}
  /\ pc = "idle" /\ todo = {} /\ tracks = << >> /\ err = "none" /\ callerPc = "init"
  /\ TwiceIdle
  /\ ParseIdle
  /\ GridIdle
  /\ CmpIdle

TwiceNext == MainDownload \/ MainUnpack \/ MainTrack \/ MainFinish \/ MainAgain

TwiceSpec == TwiceInit /\ [][TwiceNext]_vars

(***************************************************************************)
(* Specification of the resolver: download_current_kmz on a listing of one *)
(* entry                                                                   *)
(***************************************************************************)
WW_LATEST == << "_", "W", "W" >> \o LATEST     \* another product of a storm

Hrefs ==
  { dir \o storm \o tail \o ext :
      dir \in { API_DIR, BEST_DIR, << >> },
      storm \in { AL05, al06, EP07, AL01old },
      tail \in { FIVEDAY \o CONE_LATEST, FIVEDAY \o TRACK_LATEST, UNDERSCORE \o BEST_TRACK,
                 FIVEDAY \o CONE, WW_LATEST },
      ext \in { DOTKMZ, DOTZIP } }

ResolveInit ==
  /\ \E h \in Hrefs : listing = { h }
  /\ year \in { Y2020, Y2021 }
  /\ bad = NoBad /\ prior = CleanStart
  /\ cwd = {} /\ archive = {}
  /\ pc = "idle" /\ todo = {} /\ tracks = << >> /\ err = "none" /\ callerPc = "init"
  /\ TwiceIdle
  /\ ParseIdle
  /\ GridIdle
  /\ CmpIdle

ResolveNext == MainDownload

ResolveSpec == ResolveInit /\ [][ResolveNext]_vars

(***************************************************************************)
(* Specification of the comparison scripts: the availability of each       *)
(* model's timesteps is drawn, the time loop runs to its end               *)
(***************************************************************************)
CmpInit ==
  /\ script \in { "rtofs-gofs-cmems", "rtofs-cmems" }
  /\ avail \in [Models -> SUBSET Times]
  /\ script = "rtofs-cmems" => avail["gofs"] = {}     \* the script loads no GOFS
  /\ ct = 1
  /\ bound = Unbound
  /\ plotted = {}
  /\ cmpPc = "looping"
  /\ cmpErr = "none"
  /\ PipeIdle
  /\ TwiceIdle
  /\ ParseIdle
  /\ GridIdle

CmpNext == CompareStep \/ RtofsCmemsStep

CmpSpec == CmpInit /\ [][CmpNext]_vars

(***************************************************************************)
(* Properties of the geometry parsers                                      *)
(***************************************************************************)
Numeric(p) == IsNumeric(p.lon) /\ IsNumeric(p.lat)
\* written lon,lat,0 with numeric fields, and the only ",0" is the altitude
WellFormed(p) == Numeric(p) /\ p.alt = << "0" >> /\ p.lat[1] # "0"
AllPts(d, P(_)) == \A i \in 1..Len(d) : \A j \in 1..Len(d[i].pts) : P(d[i].pts[j])
AllTagged(d, tag) == \A i \in 1..Len(d) : d[i].tag = tag

Lons(ps) == [k \in 1..Len(ps) |-> FloatVal(ps[k].lon)]
Lats(ps) == [k \in 1..Len(ps) |-> FloatVal(ps[k].lat)]
Values(ps) == Ok(Lons(ps), Lats(ps))

DropFirst(ps) == IF Len(ps) = 0 THEN << >> ELSE Tail(ps)
Interior(ps) == Slice1M1(ps)

RECURSIVE AllButFirsts(_)
AllButFirsts(d) == IF Len(d) = 0 THEN << >> ELSE DropFirst(d[1].pts) \o AllButFirsts(Tail(d))
RECURSIVE Interiors(_)
Interiors(d) == IF Len(d) = 0 THEN << >> ELSE Interior(d[1].pts) \o Interiors(Tail(d))
RECURSIVE SelectTag(_, _)
SelectTag(d, tag) ==
  IF Len(d) = 0 THEN << >>
  ELSE (IF d[1].tag = tag THEN << d[1] >> ELSE << >>) \o SelectTag(Tail(d), tag)
Reverse(q) == [k \in 1..Len(q) |-> q[Len(q) + 1 - k]]

OneRing(d) == Len(d) = 1 /\ d[1].tag = "polygon" /\ AllPts(d, WellFormed)

\* C3 as claimed: a ring P0..Pn, each point written lon,lat,0, yields exactly
\* P1..P(n-1): the first and the last point are both dropped.
C3_FirstAndLastDropped ==
  (cone # NotRun /\ OneRing(doc)) => cone = Values(Interior(doc[1].pts))

\* C3 as amended: a ring P0..Pn, each point written lon,lat,0 (latitude text
\* not starting with 0), yields exactly P1..Pn: only the first point is
\* dropped; the piece dropped at the end is the remainder after the last ",0".
C3_OnlyFirstDropped ==
  (cone # NotRun /\ OneRing(doc)) => cone = Values(DropFirst(doc[1].pts))

C3_Witness ==
  /\ OneRing(doc) /\ Len(doc[1].pts) >= 3
  /\ cone.st = "ok" /\ Len(cone.lon) = Len(doc[1].pts) - 1

ThreeRings(d) == Len(SelectTag(d, "polygon")) = 3 /\ AllPts(d, WellFormed)

\* C7 as claimed: for a cone document with three polygon rings the result is
\* the concatenation, in ring order, of each ring's interior points, and no
\* other element of the document adds anything.
C7_RingInteriorsConcatenated ==
  (cone # NotRun /\ ThreeRings(doc)) => cone = Values(Interiors(SelectTag(doc, "polygon")))

\* C7 as amended: for a document whose points are all written lon,lat,0 the
\* result is the concatenation, in document order, over every element that
\* has a coordinates child (polygon ring or not), of its points without the
\* first one; nothing is carried over or lost between elements.
C7_AllButFirstConcatenated ==
  (cone # NotRun /\ AllPts(doc, WellFormed)) => cone = Values(AllButFirsts(doc))

C7_Witness ==
  /\ Len(doc) = 3 /\ AllTagged(doc, "polygon") /\ AllPts(doc, WellFormed)
  /\ \A i \in 1..3 : Len(doc[i].pts) >= 2
  /\ doc[1].pts # doc[2].pts
  /\ cone.st = "ok" /\ Len(cone.lon) = 3

\* a document as published: numeric points written lon,lat,0 and every
\* <Point> holding one point, with one text node before its <coordinates>
Published(d) ==
  /\ AllPts(d, WellFormed)
  /\ \A i \in 1..Len(d) : d[i].tag = "point" => (Len(d[i].pts) = 1 /\ Len(d[i].pre) = 1)

PointElems(d) == SelectTag(d, "point")
FirstPts(d) == [k \in 1..Len(d) |-> d[k].pts[1]]

HasAlt0(e) == \A j \in 1..Len(e.pts) : e.pts[j].alt = << "0" >>

WithAlt(d) ==
  [i \in 1..Len(d) |->
     MkElem(d[i].tag, [j \in 1..Len(d[i].pts) |-> [d[i].pts[j] EXCEPT !.alt = << "0" >>]],
            IF Len(d[i].pre) = 1 THEN "nhc" ELSE "compact")]

\* C10: a point written lon,lat is parsed to the same pair as the point
\* written lon,lat,0, by the cone parser as by the path parser.
C10_MissingAltitudeTolerated ==
  /\ (cone # NotRun /\ AllPts(doc, Numeric)) => cone = get_cone_coordinates(WithAlt(doc))
  /\ (track # NotRun /\ AllPts(doc, Numeric) /\ \A i \in 1..Len(doc) : Len(doc[i].pts) = 1)
       => track = get_track_coordinates(WithAlt(doc))

(***************************************************************************)
(* Properties of an ingestion run                                          *)
(***************************************************************************)
Ended == pc \in { "returned", "raised" }
GeometryKeys == { "forecast_track", "forecast_cone", "best_track" }

\* the archives a run of download_current_kmz saves
Downloaded ==
  { t.name : t \in { u \in UNION { DownloadTargets(ff, year) : ff \in listing } : u.ok } }
Atlantic(k) == Contains(k, LowerAL) \/ Contains(k, UpperAL)
AtlanticTracks == { k \in Downloaded : Atlantic(k) /\ Contains(k, TRACK) }
\* the downloaded archives of product marker whose name holds the storm code
Matching(code, marker) ==
  { c \in Downloaded : Atlantic(c) /\ Contains(c, code) /\ Contains(c, marker) }
\* track archive k has both companions and all three unpack to one good document
Complete(k) ==
  /\ Matching(StormKey(k), CONE) # {}
  /\ Matching(StormKey(k), BEST_TRACK) # {}
  /\ bad.file \notin { DirOf(c) : c \in { k } \cup Matching(StormKey(k), CONE)
                                         \cup Matching(StormKey(k), BEST_TRACK) }

\* C1: every entry of a mapping that main() returns holds all three
\* geometries, each with its coordinates and its style, and belongs to a
\* storm for which a cone archive and a best-track archive were downloaded; a
\* track archive without such a companion has no entry in a returned mapping.
C1_NoPartialBundle ==
  pc = "returned" =>
    /\ \A n \in DOMAIN tracks :
         /\ DOMAIN tracks[n] = GeometryKeys
         /\ \A g \in GeometryKeys : DOMAIN tracks[n][g] = { "st", "lon", "lat", "plt" }
         /\ Matching(DropFirstChars(n, 2), CONE) # {}
         /\ Matching(DropFirstChars(n, 2), BEST_TRACK) # {}
    /\ \A k \in AtlanticTracks :
         (Matching(StormKey(k), CONE) = {} \/ Matching(StormKey(k), BEST_TRACK) = {})
           => StormName(k) \notin DOMAIN tracks

C1_Witness ==
  /\ pc = "returned"
  /\ Cardinality(DOMAIN tracks) = 2
  /\ \E ff \in listing : Contains(ff, UpperEP)

\* C4: with one complete storm and one track archive that lacks a companion
\* (or unpacks badly) in the same run, the run does not abort: it returns, the
\* complete storm has its bundle and the failing track file has none.
C4_FailureIsolated ==
  ( /\ prior = CleanStart
    /\ Ended
    /\ \E k \in AtlanticTracks : Complete(k)
    /\ \E k \in AtlanticTracks : ~Complete(k) )
  => /\ pc = "returned"
     /\ \A k \in AtlanticTracks : Complete(k) <=> StormName(k) \in DOMAIN tracks

\* no listing entry of the reference year, or no track archive among them
NoActiveStorm ==
  \/ \A ff \in listing : ~(Contains(ff, KMZ) /\ Contains(ff, year))
  \/ \A k \in Downloaded : ~Contains(k, TRACK)

\* the ingestion's part of C5: with no active storm main() returns {}
NoStormMainReturnsEmpty ==
  (NoActiveStorm /\ prior = CleanStart /\ Ended) => (pc = "returned" /\ tracks = << >>)

\* C5: with no active storm the run is a normal success: main() returns an
\* empty mapping and the caller, given it, skips the per-storm processing
\* without failing.
C5_NoStormIsSuccess ==
  /\ NoStormMainReturnsEmpty
  /\ NoActiveStorm => callerPc # "TypeError"

Scenario2021 ==
  /\ listing = AL05Triple /\ year = Y2021 /\ bad = NoBad /\ prior = CleanStart

\* C6: for reference year 2021 and the listing of AL05's track, cone and
\* best-track archives, main() returns exactly one bundle, named AL052021,
\* with the three geometries populated and the fixed styles.
C6_ScenarioOneBundle ==
  (Scenario2021 /\ Ended) =>
    /\ pc = "returned"
    /\ DOMAIN tracks = { AL05 }
    /\ DOMAIN tracks[AL05] = GeometryKeys
    /\ \A g \in GeometryKeys :
         Len(tracks[AL05][g].lon) > 0 /\ Len(tracks[AL05][g].lon) = Len(tracks[AL05][g].lat)
    /\ tracks[AL05]["forecast_track"].plt.ls = "-."
    /\ tracks[AL05]["forecast_track"].plt.color = "gold"
    /\ tracks[AL05]["forecast_cone"].plt.ls = "-."
    /\ tracks[AL05]["forecast_cone"].plt.color = "blue"
    /\ tracks[AL05]["best_track"].plt.ls = ":"
    /\ tracks[AL05]["best_track"].plt.color = "magenta"

C6_Witness == Scenario2021 /\ pc = "returned" /\ AL05 \in DOMAIN tracks

(***************************************************************************)
(* Properties of the grid index mapping                                    *)
(***************************************************************************)
AxisMin(xp) == IF xp[1] <= xp[Len(xp)] THEN xp[1] ELSE xp[Len(xp)]
AxisMax(xp) == IF xp[1] <= xp[Len(xp)] THEN xp[Len(xp)] ELSE xp[1]
StrictlyInside(box, xp) == AxisMin(xp) < box[1] /\ box[1] <= box[2] /\ box[2] < AxisMax(xp)
\* the coordinate of the grid point at index i
AxisAt(xp, i) == xp[i + 1]
Covers(ind, box, xp) == AxisAt(xp, ind[1]) <= box[1] /\ AxisAt(xp, ind[2]) >= box[2]

\* C2 as claimed: on every monotonic axis, for a box strictly inside the
\* axis range, the grid points at the two indices enclose the box.
C2_CoversOnMonotonicAxis ==
  (extent_ind # NoIndex /\ StrictlyInside(Extended(extent), axis))
    => Covers(extent_ind, Extended(extent), axis)

\* C2 as amended: on every strictly increasing axis (uniform or not), for a
\* box strictly inside the axis range, the grid points at the two indices
\* enclose the box.
C2_CoversOnIncreasingAxis ==
  (extent_ind # NoIndex /\ Increasing(axis) /\ StrictlyInside(Extended(extent), axis))
    => Covers(extent_ind, Extended(extent), axis)

\* a non-uniform axis and a box whose ends both fall between grid points
C2_Witness ==
  /\ extent_ind # NoIndex /\ Increasing(axis) /\ StrictlyInside(Extended(extent), axis)
  /\ Len(axis) >= 3 /\ axis[2] - axis[1] # axis[3] - axis[2]
  /\ \A k \in 1..Len(axis) : axis[k] # Extended(extent)[1] /\ axis[k] # Extended(extent)[2]
  /\ extent_ind[1] < extent_ind[2]

(***************************************************************************)
(* Properties of unpacking and of the working files                        *)
(***************************************************************************)
\* the geometry main() reads from the archive unpacked to folder dir
GeometryKeyOf(dir) ==
  IF Contains(dir, TRACK) THEN "forecast_track"
  ELSE IF Contains(dir, CONE) THEN "forecast_cone" ELSE "best_track"

\* the unpack folder of an archive of the run holds no geometry document, or two
BadUnpack == bad.kind \in { "nokml", "twokml" }

\* C11: when the unpack folder of an archive holds zero geometry documents or
\* more than one, no document of that archive is parsed into the result and
\* the run skips the file: it still returns instead of aborting.
C11_ExtractionErrorSkipsFile ==
  (BadUnpack /\ Ended) =>
    /\ pc = "returned"
    /\ \A n \in DOMAIN tracks : GeometryKeyOf(bad.file) \notin DOMAIN tracks[n]

\* the working files of a run: what it downloads, the duplicated copy and the
\* unpack folder of each download, and what the run found in the directory
RunFiles ==
  Downloaded \cup { ZipOf(k) : k \in Downloaded } \cup { DirOf(k) : k \in Downloaded }
    \cup prior.cwd

\* C12 as claimed: a cleanup pass precedes the first download, so that after
\* the download the working directory holds this run's archives and nothing
\* stale; and when main() has returned none of the run's working files, nor
\* any leftover the run started with, is left anywhere under the working
\* directory.
C12_WorkingFilesRemoved ==
  /\ pc = "downloaded" => cwd = Downloaded
  /\ pc = "returned" => (cwd \cup archive) \cap RunFiles = {}

\* C12 as amended: the same, except that the archives (downloaded or left
\* over) are not deleted: they are out of the top of the working directory
\* and kept in its ./archive folder; the copies and unpack folders are gone.
C12_WorkingFilesTransient ==
  /\ pc = "downloaded" => cwd = Downloaded
  /\ pc = "returned" => /\ cwd \cap RunFiles = {}
                        /\ KmzIn(RunFiles) \subseteq archive
                        /\ archive \cap (RunFiles \ KmzIn(RunFiles)) = {}

\* a run that started on the leftovers of an interrupted run and returned a bundle
C12_Witness ==
  /\ pc = "returned"
  /\ prior.cwd # {}
  /\ DOMAIN tracks # {}

\* C13: from whatever state the working directory and the archive folder
\* were in when the run started, the cleanup pass that opens the run
\* completes without error, and a second pass right after it changes nothing.
C13_CleanupSafeAndIdempotent ==
  pc # "idle" =>
    /\ err # "shutil.Error"
    /\ \A co \in cleanup_dir(prior.cwd, prior.archive) :
         /\ co.ok
         /\ cleanup_dir(co.cwd, co.archive) = { co }

\* C14: from a clean working directory and with the listing unchanged, a
\* second run of main() right after the first also returns, and returns the
\* mapping the first run returned.
C14_SecondRunSame ==
  (run = 2 /\ Ended) =>
    /\ pc = "returned"
    /\ tracks = first.tracks

(***************************************************************************)
(* Properties of the correlation and of the resolver                       *)
(***************************************************************************)
\* the storm a file belongs to: its basin, then its number and season year
\* (the two letters and the six digits its name starts with)
StormOf(n) ==
  << IF SubSeq(n, 1, 2) \in { UpperAL, LowerAL } THEN UpperAL ELSE SubSeq(n, 1, 2),
     SubSeq(n, 3, 8) >>

\* C15: while the track archives are iterated, the cone file and the
\* best-track file that the selection of lines 111 and 122 yields for a track
\* file are files of the track's own storm, and at most one file qualifies,
\* so that the choice does not depend on the order the files are listed in.
C15_CompanionsOfSameStorm ==
  pc = "looping" =>
    \A f \in TrackZips(cwd) : \A marker \in { CONE, BEST_TRACK } :
      LET cs == Companions(f, ZipFiles(cwd), marker)
      IN  /\ Cardinality(cs) <= 1
          /\ \A c \in cs : StormOf(c) = StormOf(f)

\* two Atlantic storms with both companions each, beside a Pacific storm
C15_Witness ==
  /\ pc = "looping"
  /\ Cardinality({ f \in TrackZips(cwd) :
                     /\ Companions(f, ZipFiles(cwd), CONE) # {}
                     /\ Companions(f, ZipFiles(cwd), BEST_TRACK) # {} }) = 2
  /\ \E n \in cwd : Contains(n, UpperEP) /\ Contains(n, CONE)
  /\ Cardinality(DOMAIN tracks) = 1

\* the positions of the path separators of href h
SepPos(h) == { i \in 1..Len(h) : h[i] = "/" }
\* h has at least k separators
HasSep(h, k) == Cardinality(SepPos(h)) >= k
\* the segment of h after its k-th path separator, up to the next one
AfterSep(h, k) ==
  LET p == CHOOSE i \in SepPos(h) : Cardinality({ j \in SepPos(h) : j <= i }) = k
      later == { j \in SepPos(h) : j > p }
      q == IF later = {} THEN Len(h) + 1 ELSE CHOOSE j \in later : \A m \in later : j <= m
  IN  SubSeq(h, p + 1, q - 1)

\* the category buckets entry h falls into
Buckets(h) == { m \in { CONE_LATEST, TRACK_LATEST, BEST_TRACK } : Contains(h, m) }
Selected(h) == Contains(h, KMZ) /\ Contains(h, year) /\ Buckets(h) # {}
\* the separators the target name of bucket m is counted from
SepsFor(m) == IF m = BEST_TRACK THEN 1 ELSE 3

\* C16 as claimed: an entry is selected exactly when its name holds the
\* archive marker, the reference year and a category marker; a selected entry
\* falls into exactly one bucket and is saved under the segment after the
\* third path separator (cone, track) or the first (best track); an entry
\* that is not selected is not downloaded.
C16_SelectedIntoOneBucket ==
  pc # "idle" =>
    \A h \in listing :
      IF Selected(h)
      THEN /\ Cardinality(Buckets(h)) = 1
           /\ pc = "downloaded"
           /\ \A m \in Buckets(h) : HasSep(h, SepsFor(m)) /\ cwd = { AfterSep(h, SepsFor(m)) }
      ELSE pc = "downloaded" /\ cwd = {}

\* C16 as amended: an entry is selected exactly when its name holds the
\* archive marker, the reference year and at least one category marker; it is
\* saved once for every marker it holds, under the segment after the third
\* path separator (cone, track) or the first (best track), provided its path
\* has that many separators; if it has not, the resolver raises IndexError.
\* An entry that is not selected is not downloaded.
C16_SelectedIntoEachBucket ==
  pc # "idle" =>
    \A h \in listing :
      IF Selected(h)
      THEN IF \A m \in Buckets(h) : HasSep(h, SepsFor(m))
           THEN /\ pc = "downloaded"
                /\ cwd = { AfterSep(h, SepsFor(m)) : m \in Buckets(h) }
           ELSE pc = "raised" /\ err = "IndexError"
      ELSE pc = "downloaded" /\ cwd = {}

\* a best-track entry saved under the segment after its first separator
C16_Witness ==
  /\ pc = "downloaded"
  /\ \E h \in listing : Buckets(h) = { BEST_TRACK } /\ HasSep(h, 1) /\ cwd = { AfterSep(h, 1) }

\* the box lies wholly beyond one end of the axis
Outside(box, xp) == box[2] < AxisMin(xp) \/ box[1] > AxisMax(xp)
LastIndex(xp) == Len(xp) - 1

\* C17: on every monotonic axis, increasing or decreasing, and for every
\* box with min <= max, wherever it lies with respect to the axis, the
\* computed index range is a pair of integers with lower <= upper.
C17_RangeOrdered ==
  extent_ind # NoIndex =>
    /\ Len(extent_ind) = 2
    /\ extent_ind[1] \in Int /\ extent_ind[2] \in Int
    /\ extent_ind[1] <= extent_ind[2]

\* a decreasing axis and a box that overlaps only a part of it
C17_Witness ==
  /\ extent_ind # NoIndex
  /\ Decreasing(axis)
  /\ Extended(extent)[1] < AxisMin(axis)
  /\ Extended(extent)[2] > AxisMin(axis) /\ Extended(extent)[2] < AxisMax(axis)

\* C18: the index computation is defined for every axis and every box (it
\* has no failing outcome), and where a bound of the box lies beyond an end
\* of the axis the index it maps to is that of an end grid point: every
\* index returned lies within the axis, and on an increasing axis a bound
\* below the first coordinate maps to the first index, one above the last
\* coordinate to the last index.
C18_OutOfRangeClamped ==
  /\ extent_ind = NoIndex => ENABLED MapExtent
  /\ extent_ind # NoIndex =>
       /\ extent_ind[1] \in 0..LastIndex(axis) /\ extent_ind[2] \in 0..LastIndex(axis)
       /\ (Increasing(axis) /\ Extended(extent)[1] < axis[1]) => extent_ind[1] = 0
       /\ (Increasing(axis) /\ Extended(extent)[2] > axis[Len(axis)])
            => extent_ind[2] = LastIndex(axis)

\* a box wholly beyond the upper end of an increasing axis
C18_Witness ==
  /\ extent_ind # NoIndex
  /\ Increasing(axis)
  /\ Outside(Extended(extent), axis)
  /\ Extended(extent)[1] > axis[Len(axis)]
  /\ extent_ind = << LastIndex(axis), LastIndex(axis) >>

Due(t) ==
  { <<t, r, m>> : r \in Regions,
                  m \in { o \in { "gofs", "cmems" } :
                            /\ Sel("rtofs", t) /\ Sel(o, t)
                            /\ (o = "gofs" => script = "rtofs-gofs-cmems") } }

\* C20: whichever model lacks whichever timestep, the first included, the
\* time loop raises nothing and runs to its end, and every timestep at which
\* two compared models are both available is plotted for every region.
C20_MissingRunNotFatal ==
  /\ cmpPc # "raised"
  /\ cmpPc = "done" => \A t \in Times : Due(t) \subseteq plotted

(***************************************************************************)
(* Properties of the order of the steps and of the basin filter            *)
(***************************************************************************)
\* archive k of the run is downloaded and its geometry is not yet in the mapping
InProgress(k) ==
  /\ pc \in { "downloaded", "looping" }
  /\ k \in cwd
  /\ \A n \in DOMAIN tracks : GeometryKeyOf(k) \notin DOMAIN tracks[n] \/ ~Contains(k, DropFirstChars(n, 2))

\* C21 as claimed: each advisory file goes through download, duplication,
\* unpacking and parsing before the next file's first step, so that at no
\* point of a run is more than one file between download and parsing.
C21_OneFileAtATime ==
  Cardinality({ k \in Downloaded : InProgress(k) }) <= 1

\* C21 as amended: the run goes step by step over all files, not file by
\* file: when the download step is over every selected archive is in the
\* working directory and none is duplicated, unpacked or parsed; when the
\* loop over the track archives starts, and as long as it runs, every archive
\* is duplicated and unpacked; parsing happens only in that loop.
C21_StepByStepOverAllFiles ==
  /\ pc = "downloaded" =>
       /\ Downloaded \subseteq cwd
       /\ \A k \in Downloaded : ZipOf(k) \notin cwd /\ DirOf(k) \notin cwd
       /\ tracks = << >>
  /\ pc = "looping" =>
       \A k \in Downloaded : k \in cwd /\ ZipOf(k) \in cwd /\ DirOf(k) \in cwd
  /\ pc = "idle" => tracks = << >>

\* several archives unpacked side by side before the first is parsed
C21_Witness ==
  /\ pc = "looping"
  /\ tracks = << >>
  /\ Cardinality(Downloaded) >= 4
  /\ \A k \in Downloaded : DirOf(k) \in cwd

(***************************************************************************)
(* Properties of the rounding rule and of the slice                        *)
(***************************************************************************)
\* C22: the index range the storm-track surface-map script computes for a
\* box is the one the floor / ceil rule of the comparison scripts gives for
\* the same box and axis, and, for a box inside an increasing axis, the grid
\* points at its two indices enclose the box.
C22_SameConservativeRule ==
  lonIndex # NoIndex =>
    /\ lonIndex = IndexRange(extent, axis)
    /\ (Increasing(axis) /\ AxisMin(axis) <= extent[1] /\ extent[2] <= AxisMax(axis))
         => Covers(lonIndex, extent, axis)

\* the largest step between neighbouring grid points
WithinOneDegree(xp) == \A k \in 1..(Len(xp) - 1) : xp[k + 1] - xp[k] <= UnitsPerDegree
\* the widened box lies inside the axis range
WidenedInside(ext, xp) == AxisMin(xp) <= Extended(ext)[1] /\ Extended(ext)[2] <= AxisMax(xp)

\* C23: on an increasing axis whose grid points are at most one degree apart,
\* and for an extent that still lies inside the axis once widened by a degree
\* on each side, the grid points kept by the positional slice (from the
\* floored lower index up to, not including, the ceiled upper index) include
\* one at or below the extent's minimum and one at or above its maximum.
C23_SliceKeepsExtent ==
  (extent_ind # NoIndex /\ Increasing(axis) /\ WithinOneDegree(axis) /\ WidenedInside(extent, axis))
    => /\ \E g \in Sliced(extent_ind, axis) : g <= extent[1]
       /\ \E g \in Sliced(extent_ind, axis) : g >= extent[2]

\* an axis of uneven spacing, the upper end of the widened box between two
\* grid points, and the slice leaving out the grid point above it
C23_Witness ==
  /\ extent_ind # NoIndex /\ Increasing(axis) /\ WithinOneDegree(axis)
  /\ WidenedInside(extent, axis)
  /\ \E k \in 1..(Len(axis) - 2) : axis[k + 1] - axis[k] # axis[k + 2] - axis[k + 1]
  /\ \A k \in 1..Len(axis) : axis[k] # Extended(extent)[2]
  /\ AxisAt(axis, extent_ind[2]) \notin Sliced(extent_ind, axis)

\* C24: the mapping main() returns has one entry for each downloaded track
\* archive whose name holds 'al' or 'AL', keyed by the part of the name
\* before the first underscore, and no other entry: a storm of another basin
\* has none, its track, cone and best-track archives all present or not.
C24_OnlyAtlanticBundled ==
  pc = "returned" =>
    /\ DOMAIN tracks = { Split(k, UNDERSCORE)[1] : k \in AtlanticTracks }
    /\ \A n \in DOMAIN tracks : Atlantic(n) /\ ~Contains(n, UpperEP)

\* a run that returned the Atlantic storm's bundle while the Pacific storm's
\* three archives had been downloaded too
C24_Witness ==
  /\ pc = "returned"
  /\ DOMAIN tracks = { AL05 }
  /\ { TrackName(EP07), ConeName(EP07), BestName(EP07) } \subseteq Downloaded
  /\ { TrackName(EP07), ConeName(EP07), BestName(EP07) } \subseteq archive

====
